---- MODULE Spec2Model ----
(***************************************************************************)
(* EPUB image-reference checker (src/main.py).                             *)
(*                                                                         *)
(* EpubValidator validates one archive: every image reference found in a   *)
(* content document must resolve to an entry of the archive.  EpubSorter   *)
(* validates every *.epub file of a directory, optionally moves the broken *)
(* ones to <directory>/broken, and prints a summary.                       *)
(*                                                                         *)
(* Strings (entry paths, references, file names) are sequences of          *)
(* one-character strings, so that the path and URL functions are computed  *)
(* character by character as the Python library computes them.             *)
(***************************************************************************)
EXTENDS Integers, Sequences, FiniteSets, TLC

VARIABLES
    \* ---- EpubValidator (one instance at a time) ----
    archive,            \* content of the file at file_path
    vpc,                \* position in validate(): "idle", "start", "scan", "done"
    is_valid_zip,       \* self.is_valid_zip
    missing_resources,  \* self.missing_resources
    all_files,          \* local all_files of validate()
    pending,            \* entries the for loop of _check_content_files has not visited
    scanned,            \* history: content documents handed to _scan_file_for_images
    calls,              \* history: the calls of _verify_resource
    result,             \* return value of validate(): "none", TRUE or FALSE
    exit_path,          \* history: the return statement validate() left by
    file_path,          \* self.file_path.name of the validator
    \* ---- the file system ----
    dir_exists,         \* the scanned directory exists
    listing,            \* names of the files of the directory, in listing order
    dir_files,          \* name -> content, for the files of the directory
    broken_dir,         \* <directory>/broken: "absent", "dir", or "blocked"
                        \* (mkdir raises: a file of that name, no permission)
    broken_files,       \* name -> content, for the files of <directory>/broken
    \* ---- EpubSorter ----
    isolate_broken,     \* self.isolate_broken
    pc,                 \* position in process()
    files,              \* local files of process()
    file_idx,           \* index of the file the loop of process() is at
    valid_epubs,        \* self.valid_epubs
    broken_epubs,       \* self.broken_epubs
    move_idx,           \* index of the file the loop of _isolate_broken_files is at
    log,                \* lines written through logger, at level INFO and above
    stdout,             \* summaries printed by _print_summary
    \* ---- runs of the program ----
    run,                \* number of the current run
    start,              \* history: the file system when the current run began
    prev                \* history: outcome of the previous run

validator_vars == <<archive, vpc, is_valid_zip, missing_resources, all_files,
                    pending, scanned, calls, result, exit_path, file_path>>

fs_vars == <<dir_exists, listing, dir_files, broken_dir, broken_files>>

\* the sorter's variables other than log
sorter_vars == <<isolate_broken, pc, files, file_idx, valid_epubs, broken_epubs,
                 move_idx, stdout>>

run_vars == <<run, start, prev>>

vars == <<validator_vars, fs_vars, sorter_vars, log, run_vars>>

-----------------------------------------------------------------------------
(* Bounds of the model *)

\* longest enumerated image reference
MaxLen == 4

\* number of times the program is run on the directory
MaxRuns == 2

-----------------------------------------------------------------------------
(* Strings *)

StartsWith(s, p) == Len(s) >= Len(p) /\ SubSeq(s, 1, Len(p)) = p

EndsWith(s, p) == Len(s) >= Len(p) /\ SubSeq(s, Len(s) - Len(p) + 1, Len(s)) = p

UpperLetters == <<"A","B","C","D","E","F","G","H","I","J","K","L","M",
                  "N","O","P","Q","R","S","T","U","V","W","X","Y","Z">>

LowerLetters == <<"a","b","c","d","e","f","g","h","i","j","k","l","m",
                  "n","o","p","q","r","s","t","u","v","w","x","y","z">>

LowerChar(c) ==
    IF \E i \in 1..26 : UpperLetters[i] = c
    THEN LowerLetters[CHOOSE i \in 1..26 : UpperLetters[i] = c]
    ELSE c

\* str.lower()
lower(s) == [i \in 1..Len(s) |-> LowerChar(s[i])]

\* the characters 0x20 .. 0x7e
Printable ==
    <<" ","!","\"","#","$","%","&","'","(",")","*","+",",","-",".","/",
      "0","1","2","3","4","5","6","7","8","9",":",";","<","=",">","?",
      "@","A","B","C","D","E","F","G","H","I","J","K","L","M","N","O",
      "P","Q","R","S","T","U","V","W","X","Y","Z","[","\\","]","^","_",
      "\\x96","a","b","c","d","e","f","g","h","i","j","k","l","m","n","o",
      "p","q","r","s","t","u","v","w","x","y","z","{","|","}","~">>

\* chr(n) for an ASCII code; a control character and the grave accent are
\* written \x<n>
Chr(n) == IF n \in 32..126 THEN Printable[n - 31] ELSE "\\x" \o ToString(n)

HexDigits == <<"0","1","2","3","4","5","6","7","8","9","a","b","c","d","e","f">>

IsHex(c) == \E i \in 1..16 : HexDigits[i] = LowerChar(c)

HexVal(c) == (CHOOSE i \in 1..16 : HexDigits[i] = LowerChar(c)) - 1

\* the reference is not decoded
NoUnquote(s) == s

\* urllib.parse.unquote on ASCII text whose escapes are below %80:
\* %XY with two hex digits becomes the character of that code, anything else
\* is kept as it is.
RECURSIVE unquote(_)
unquote(s) ==
    IF s = <<>> THEN <<>>
    ELSE IF s[1] = "%" /\ Len(s) >= 3 /\ IsHex(s[2]) /\ IsHex(s[3])
         THEN <<Chr(16 * HexVal(s[2]) + HexVal(s[3]))>> \o unquote(SubSeq(s, 4, Len(s)))
         ELSE <<s[1]>> \o unquote(Tail(s))

\* p.rfind('/') + 1
RECURSIVE AfterLastSlash(_)
AfterLastSlash(p) ==
    IF p = <<>> THEN 0
    ELSE IF p[Len(p)] = "/" THEN Len(p)
    ELSE AfterLastSlash(SubSeq(p, 1, Len(p) - 1))

AllSlashes(s) == \A i \in 1..Len(s) : s[i] = "/"

\* s.rstrip('/')
RECURSIVE RStripSlash(_)
RStripSlash(s) ==
    IF s # <<>> /\ s[Len(s)] = "/" THEN RStripSlash(SubSeq(s, 1, Len(s) - 1)) ELSE s

\* posixpath.dirname
dirname(p) ==
    LET head == SubSeq(p, 1, AfterLastSlash(p))
    IN  IF head # <<>> /\ ~AllSlashes(head) THEN RStripSlash(head) ELSE head

\* posixpath.join(a, b)
join(a, b) ==
    IF StartsWith(b, <<"/">>) THEN b
    ELSE IF a = <<>> \/ EndsWith(a, <<"/">>) THEN a \o b
    ELSE a \o <<"/">> \o b

\* path.split('/')
RECURSIVE SplitSlash(_)
SplitSlash(s) ==
    IF \A i \in 1..Len(s) : s[i] # "/" THEN <<s>>
    ELSE LET k == CHOOSE i \in 1..Len(s) : s[i] = "/" /\ \A j \in 1..(i - 1) : s[j] # "/"
         IN  <<SubSeq(s, 1, k - 1)>> \o SplitSlash(SubSeq(s, k + 1, Len(s)))

\* '/'.join(comps)
RECURSIVE JoinSlash(_)
JoinSlash(comps) ==
    IF comps = <<>> THEN <<>>
    ELSE IF Len(comps) = 1 THEN comps[1]
    ELSE comps[1] \o <<"/">> \o JoinSlash(Tail(comps))

DotDot == <<".", ".">>

\* the loop of posixpath.normpath over the components
RECURSIVE NormComps(_, _, _)
NormComps(comps, new_comps, initial_slashes) ==
    IF comps = <<>> THEN new_comps
    ELSE LET comp == comps[1]
             rest == Tail(comps)
         IN  IF comp = <<>> \/ comp = <<".">>
             THEN NormComps(rest, new_comps, initial_slashes)
             ELSE IF \/ comp # DotDot
                     \/ (initial_slashes = 0 /\ new_comps = <<>>)
                     \/ (new_comps # <<>> /\ new_comps[Len(new_comps)] = DotDot)
                  THEN NormComps(rest, Append(new_comps, comp), initial_slashes)
                  ELSE IF new_comps # <<>>
                       THEN NormComps(rest, SubSeq(new_comps, 1, Len(new_comps) - 1),
                                      initial_slashes)
                       ELSE NormComps(rest, new_comps, initial_slashes)

\* posixpath.normpath
normpath(path) ==
    IF path = <<>> THEN <<".">>
    ELSE LET initial_slashes ==
                 IF ~StartsWith(path, <<"/">>) THEN 0
                 ELSE IF StartsWith(path, <<"/", "/">>) /\ ~StartsWith(path, <<"/", "/", "/">>)
                      THEN 2 ELSE 1
             body == JoinSlash(NormComps(SplitSlash(path), <<>>, initial_slashes))
             out  == [i \in 1..initial_slashes |-> "/"] \o body
         IN  IF out = <<>> THEN <<".">> ELSE out

-----------------------------------------------------------------------------
(* Archives *)

\* Outcome of opening the file: "notzip" (zipfile.is_zipfile is false),
\* "badzip" (zipfile.ZipFile raises BadZipFile), "error" (zipfile.ZipFile
\* raises another exception), "ok".
OpenKinds == {"notzip", "badzip", "error", "ok"}

\* Outcome of reading and parsing one content document: "ok", "parse_error"
\* (BeautifulSoup raises), "io_error" (zf.open or the read raises).
DocStatus == {"ok", "parse_error", "io_error"}

ContentSuffixes == {<<".","h","t","m","l">>, <<".","x","h","t","m","l">>, <<".","h","t","m">>}

\* filename.lower().endswith(('.html', '.xhtml', '.htm'))
IsContentFile(filename) == \E suf \in ContentSuffixes : EndsWith(lower(filename), suf)

ExternalPrefixesNoData ==
    {<<"h","t","t","p",":">>, <<"h","t","t","p","s",":">>, <<"m","a","i","l","t","o",":">>}

ExternalPrefixes ==
    {<<"h","t","t","p",":">>, <<"h","t","t","p","s",":">>, <<"d","a","t","a",":">>,
     <<"m","a","i","l","t","o",":">>}

\* src.startswith(('http:', 'https:', 'data:', 'mailto:'))
IsExternal(src) == \E pre \in ExternalPrefixes : StartsWith(src, pre)

\* An archive: how it opens, its entry names (zf.namelist()), and for every
\* content document its read/parse outcome and the references of its <img>
\* elements (src) followed by those of its <image> elements (xlink:href or
\* href), in document order.
Archive(open, entries, docs) == [open |-> open, entries |-> entries, docs |-> docs]

Doc(status, refs) == [status |-> status, refs |-> refs]

-----------------------------------------------------------------------------
(* EpubValidator *)

\* _verify_resource: st is [missing, calls], the missing list and the
\* history of calls
verify_resource(st, src, base_dir, entries, context_file) ==
    IF IsExternal(src)
    THEN [st EXCEPT !.calls = Append(@, [src |-> src, context |-> context_file,
                                         external |-> TRUE, target |-> <<>>])]
    ELSE LET target_path == normpath(join(base_dir, unquote(src)))
         IN  [missing |-> IF target_path \notin entries
                          THEN Append(st.missing, [target |-> target_path,
                                                   context |-> context_file])
                          ELSE st.missing,
              calls   |-> Append(st.calls, [src |-> src, context |-> context_file,
                                            external |-> FALSE, target |-> target_path])]

\* the two loops of _scan_file_for_images over the extracted references;
\* an empty attribute value is not verified
RECURSIVE VerifyAll(_, _, _, _, _)
VerifyAll(st, refs, base_dir, entries, html_filename) ==
    IF refs = <<>> THEN st
    ELSE VerifyAll(IF refs[1] # <<>>
                   THEN verify_resource(st, refs[1], base_dir, entries, html_filename)
                   ELSE st,
                   Tail(refs), base_dir, entries, html_filename)

\* _scan_file_for_images: an exception while the document is opened, read
\* or parsed is caught and logged at debug level
scan_file_for_images(st, doc, html_filename, entries) ==
    IF doc.status # "ok" THEN st
    ELSE VerifyAll(st, doc.refs, dirname(html_filename), entries, html_filename)

\* a line of the log: what it reports, and the file it names
Line(kind, name) == [kind |-> kind, name |-> name, target |-> <<>>, context |-> <<>>]

\* the line of a missing resource: "Missing: '<target>' (referenced in '<context>')"
MissingLine(m) == [kind |-> "missing", name |-> <<>>, target |-> m.target,
                   context |-> m.context]

NewValidator ==
    /\ is_valid_zip = TRUE
    /\ missing_resources = <<>>
    /\ all_files = {}
    /\ pending = {}
    /\ scanned = <<>>
    /\ calls = <<>>
    /\ result = "none"
    /\ exit_path = "none"

\* validate(), line 30: the file is not a zip file
ValidateNotZip ==
    /\ vpc = "start"
    /\ archive.open = "notzip"
    /\ is_valid_zip' = FALSE
    /\ result' = FALSE
    /\ exit_path' = "notzip"
    /\ vpc' = "done"
    /\ UNCHANGED <<archive, missing_resources, all_files, pending, scanned, calls>>
    /\ UNCHANGED <<file_path, fs_vars, sorter_vars, log, run_vars>>

\* validate(), lines 35 and 38-40: zipfile.ZipFile raises BadZipFile
ValidateBadZip ==
    /\ vpc = "start"
    /\ archive.open = "badzip"
    /\ is_valid_zip' = FALSE
    /\ result' = FALSE
    /\ exit_path' = "badzip"
    /\ vpc' = "done"
    /\ UNCHANGED <<archive, missing_resources, all_files, pending, scanned, calls>>
    /\ UNCHANGED <<file_path, fs_vars, sorter_vars, log, run_vars>>

\* validate(), lines 35 and 41-43: zipfile.ZipFile raises another exception
ValidateError ==
    /\ vpc = "start"
    /\ archive.open = "error"
    /\ result' = FALSE
    /\ exit_path' = "error"
    /\ vpc' = "done"
    /\ UNCHANGED <<archive, is_valid_zip, missing_resources, all_files, pending,
                   scanned, calls>>
    /\ log' = Append(log, Line("error_processing", file_path))
    /\ UNCHANGED <<file_path, fs_vars, sorter_vars, run_vars>>

\* validate(), lines 35-36: the archive opens, all_files = set(zf.namelist())
ValidateOpen ==
    /\ vpc = "start"
    /\ archive.open = "ok"
    /\ all_files' = archive.entries
    /\ pending' = archive.entries
    /\ vpc' = "scan"
    /\ UNCHANGED <<archive, is_valid_zip, missing_resources, scanned, calls, result,
                   exit_path>>
    /\ UNCHANGED <<file_path, fs_vars, sorter_vars, log, run_vars>>

\* a document that cannot be read or parsed ends the loop
CheckContentFileAborts ==
    /\ vpc = "scan"
    /\ \E filename \in pending :
         /\ pending' = IF IsContentFile(filename) /\ archive.docs[filename].status # "ok"
                       THEN {} ELSE pending \ {filename}
         /\ IF IsContentFile(filename)
            THEN LET st == scan_file_for_images(
                               [missing |-> missing_resources, calls |-> calls],
                               archive.docs[filename], filename, all_files)
                 IN  /\ missing_resources' = st.missing
                     /\ calls' = st.calls
                     /\ scanned' = Append(scanned, filename)
            ELSE UNCHANGED <<missing_resources, calls, scanned>>
    /\ UNCHANGED <<archive, vpc, is_valid_zip, all_files, result, exit_path>>
    /\ UNCHANGED <<file_path, fs_vars, sorter_vars, log, run_vars>>

\* one iteration of the loop of _check_content_files; a set is iterated in
\* an order the program does not choose
CheckContentFile ==
    /\ vpc = "scan"
    /\ \E filename \in pending :
         /\ pending' = pending \ {filename}
         /\ IF IsContentFile(filename)
            THEN LET st == scan_file_for_images(
                               [missing |-> missing_resources, calls |-> calls],
                               archive.docs[filename], filename, all_files)
                 IN  /\ missing_resources' = st.missing
                     /\ calls' = st.calls
                     /\ scanned' = Append(scanned, filename)
            ELSE UNCHANGED <<missing_resources, calls, scanned>>
    /\ UNCHANGED <<archive, vpc, is_valid_zip, all_files, result, exit_path>>
    /\ UNCHANGED <<file_path, fs_vars, sorter_vars, log, run_vars>>

\* validate() returns True whatever is missing
ValidateReturnAlwaysTrue ==
    /\ vpc = "scan"
    /\ pending = {}
    /\ result' = TRUE
    /\ exit_path' = "normal"
    /\ vpc' = "done"
    /\ UNCHANGED <<archive, is_valid_zip, missing_resources, all_files, pending,
                   scanned, calls>>
    /\ UNCHANGED <<file_path, fs_vars, sorter_vars, log, run_vars>>

\* validate(), line 45
ValidateReturn ==
    /\ vpc = "scan"
    /\ pending = {}
    /\ result' = (Len(missing_resources) = 0)
    /\ exit_path' = "normal"
    /\ vpc' = "done"
    /\ UNCHANGED <<archive, is_valid_zip, missing_resources, all_files, pending,
                   scanned, calls>>
    /\ UNCHANGED <<file_path, fs_vars, sorter_vars, log, run_vars>>

ValidatorNext ==
    \/ ValidateNotZip
    \/ ValidateBadZip
    \/ ValidateError
    \/ ValidateOpen
    \/ CheckContentFile
    \/ ValidateReturn

-----------------------------------------------------------------------------
(* The archives the model validates *)

\* 'OEBPS/chapter1.xhtml'
P_chapter1 == <<"O","E","B","P","S","/","c","h","a","p","t","e","r","1",".","x","h","t","m","l">>

\* 'index.xhtml'
P_index == <<"i","n","d","e","x",".","x","h","t","m","l">>

\* 'images/fig1.png'
P_fig1 == <<"i","m","a","g","e","s","/","f","i","g","1",".","p","n","g">>

\* 'img/a.png'
P_img_a == <<"i","m","g","/","a",".","p","n","g">>

\* 'OEBPS/cover page.jpg'
P_cover == <<"O","E","B","P","S","/","c","o","v","e","r"," ","p","a","g","e",".","j","p","g">>

\* '../images/fig1.png'
R_fig1 == <<".",".","/","i","m","a","g","e","s","/","f","i","g","1",".","p","n","g">>

\* 'img/a.png'
R_img_a == <<"i","m","g","/","a",".","p","n","g">>

\* 'cover%20page.jpg'
R_cover == <<"c","o","v","e","r","%","2","0","p","a","g","e",".","j","p","g">>

\* 'c.htm'
P_c == <<"c",".","h","t","m">>

\* 'd/p/c.htm'
P_dpc == <<"d","/","p","/","c",".","h","t","m">>

\* 'd/B.HTML'
P_B == <<"d","/","B",".","H","T","M","L">>

\* 'p'
P_p == <<"p">>

\* 'd/p'
P_dp == <<"d","/","p">>

\* 'd/p/p'
P_dpp == <<"d","/","p","/","p">>

\* 'q'
P_q == <<"q">>

\* 'd/q'
P_dq == <<"d","/","q">>

\* 'http:p'
R_http == <<"h","t","t","p",":","p">>

\* 'https:p'
R_https == <<"h","t","t","p","s",":","p">>

\* 'data:p'
R_data == <<"d","a","t","a",":","p">>

\* 'mailto:p'
R_mailto == <<"m","a","i","l","t","o",":","p">>

\* 'HTTP:p'
R_HTTP == <<"H","T","T","P",":","p">>

\* 'ftp:p'
R_ftp == <<"f","t","p",":","p">>

\* the one-character strings the enumerated references are made of
Sigma == {"p", "/", ".", "%", "2"}

\* every reference of at most MaxLen characters over Sigma
EnumRefs == UNION {[1..k -> Sigma] : k \in 0..MaxLen}

\* one content document holding one <img src=...>, in an archive with a few
\* other entries
OneRef(doc, src, others) ==
    Archive("ok", {doc} \cup others, (doc :> Doc("ok", <<src>>)))

GridArchives ==
    {OneRef(doc, src, others) :
        doc \in {P_c, P_dpc}, src \in EnumRefs,
        others \in {{P_p, P_dp}, {P_dpp, <<"\"">>}}}

ExternalRefs == {R_http, R_https, R_data, R_mailto}

\* references with a scheme, with and without an entry of the same name
SchemeArchives ==
    {OneRef(P_c, src, others) :
        src \in ExternalRefs \cup {R_HTTP, R_ftp},
        others \in {{P_p}, {P_p, R_http, R_https, R_data, R_mailto, R_HTTP, R_ftp}}}

\* the documented examples of resolution, with the target present and absent
ExampleArchives ==
    {OneRef(P_chapter1, R_fig1, {P_fig1}), OneRef(P_chapter1, R_fig1, {P_p}),
     OneRef(P_index, R_img_a, {P_img_a}), OneRef(P_index, R_img_a, {P_p}),
     OneRef(P_chapter1, R_cover, {P_cover}), OneRef(P_chapter1, R_cover, {P_p})}

\* files that do not open
ClosedArchives == {Archive(k, {}, <<>>) : k \in {"notzip", "badzip", "error"}}

\* two content documents (one of them named in upper case) and an image;
\* each document is readable or not, and references the image that exists,
\* one that does not, or both
TwoDocArchives ==
    {Archive("ok", {P_c, P_B, P_dp},
             (P_c :> Doc(s1, r1)) @@ (P_B :> Doc(s2, r2))) :
        s1 \in DocStatus, s2 \in DocStatus,
        r1 \in {<<P_dp>>, <<P_q>>}, r2 \in {<<P_p>>, <<P_q, P_p>>}}

ValidateArchives ==
    GridArchives \cup SchemeArchives \cup ExampleArchives \cup ClosedArchives
        \cup TwoDocArchives

-----------------------------------------------------------------------------
(* validate() on one archive *)

\* 'a.epub'
N_a == <<"a",".","e","p","u","b">>

\* 'b.epub'
N_b == <<"b",".","e","p","u","b">>

\* 'c.EPUB'
N_c == <<"c",".","E","P","U","B">>

NoOutcome == [log |-> <<>>, valid |-> <<>>, broken |-> <<>>]

\* validate() called on the file a.epub; no EpubSorter is running
ValidateInit ==
    /\ archive \in ValidateArchives
    /\ vpc = "start"
    /\ NewValidator
    /\ file_path = N_a
    /\ dir_exists = TRUE
    /\ listing = <<N_a>>
    /\ dir_files = (N_a :> archive)
    /\ broken_dir = "absent"
    /\ broken_files = <<>>
    /\ isolate_broken = FALSE
    /\ pc = "idle"
    /\ files = <<>>
    /\ file_idx = 0
    /\ valid_epubs = <<>>
    /\ broken_epubs = <<>>
    /\ move_idx = 0
    /\ log = <<>>
    /\ stdout = <<>>
    /\ run = 1
    /\ start = [dir_files |-> dir_files, broken_files |-> broken_files,
                listing |-> listing]
    /\ prev = NoOutcome

SpecValidate == ValidateInit /\ [][ValidatorNext]_vars

-----------------------------------------------------------------------------
(* Properties of validate() *)

ContentDocs(a) == {f \in a.entries : IsContentFile(f)}

MissingSet == {missing_resources[j] : j \in 1..Len(missing_resources)}

ScannedSet == {scanned[j] : j \in 1..Len(scanned)}

\* the four literal scheme prefixes
HasScheme(src) ==
    \/ StartsWith(src, <<"h","t","t","p",":">>)
    \/ StartsWith(src, <<"h","t","t","p","s",":">>)
    \/ StartsWith(src, <<"d","a","t","a",":">>)
    \/ StartsWith(src, <<"m","a","i","l","t","o",":">>)

\* C1 as stated: when validate() has returned, the returned validity equals
\* is_valid_zip AND missing_resources is empty, on every exit path.
C1_ValidIffZipFlagAndNoMissing ==
    vpc = "done" => (result = (is_valid_zip /\ missing_resources = <<>>))

\* C1 amended: when validate() has returned, the result is True iff
\* zipfile.ZipFile opened the container without raising and missing_resources
\* is empty; is_valid_zip is False exactly when the file is not a zip file or
\* BadZipFile was raised (so a True result always has is_valid_zip True and
\* no missing resource, and on the generic-exception handler the result is
\* False although is_valid_zip is still True).
C1_ValidIffOpenedAndNoMissing ==
    vpc = "done" =>
        /\ result = (archive.open = "ok" /\ missing_resources = <<>>)
        /\ is_valid_zip = (archive.open \notin {"notzip", "badzip"})
        /\ (result = TRUE => is_valid_zip /\ missing_resources = <<>>)

\* C1 witness: validate() returned through the generic-exception handler
C1_Witness ==
    /\ vpc = "done"
    /\ exit_path = "error"
    /\ result = FALSE
    /\ is_valid_zip
    /\ missing_resources = <<>>

\* a normalized path: ".", or optional leading slashes followed by non-empty
\* components none of which is ".", with ".." components only at the front
\* of a relative path
NormalForm(t) ==
    \/ t = <<".">>
    \/ /\ t # <<>>
       /\ LET lead  == IF StartsWith(t, <<"/", "/">>) /\ ~StartsWith(t, <<"/", "/", "/">>) THEN 2
                       ELSE IF StartsWith(t, <<"/">>) THEN 1 ELSE 0
              body  == SubSeq(t, lead + 1, Len(t))
              comps == SplitSlash(body)
          IN  \/ (lead > 0 /\ body = <<>>)
              \/ /\ \A i \in 1..Len(comps) : comps[i] # <<>> /\ comps[i] # <<".">>
                 /\ \A i \in 1..Len(comps) :
                        comps[i] = DotDot =>
                            lead = 0 /\ \A j \in 1..i : comps[j] = DotDot

\* C2: every non-external reference r of document d is resolved to
\* normpath(join(dirname(d), unquote(r))), a normalized path; a missing
\* description (target, document) is recorded iff the target is not an entry
\* of the archive; OEBPS/chapter1.xhtml + ../images/fig1.png gives
\* images/fig1.png, index.xhtml + img/a.png gives img/a.png, and
\* cover%20page.jpg gives "cover page.jpg" in the document's directory.
C2_Resolution ==
    /\ \A i \in 1..Len(calls) :
         LET c == calls[i]
         IN  ~c.external =>
               /\ c.target = normpath(join(dirname(c.context), unquote(c.src)))
               /\ NormalForm(c.target)
               /\ ([target |-> c.target, context |-> c.context] \in MissingSet)
                      <=> (c.target \notin archive.entries)
               /\ (c.context = P_chapter1 /\ c.src = R_fig1) => c.target = P_fig1
               /\ (c.context = P_index /\ c.src = R_img_a) => c.target = P_img_a
               /\ (c.context = P_chapter1 /\ c.src = R_cover) => c.target = P_cover
               /\ (c.context = P_c /\ c.src = <<"%", "2", "2">>) => c.target = <<"\"">>
               /\ (c.context = P_dpc /\ c.src = <<".", ".", "/", "p">>) => c.target = P_dp
    /\ \A m \in MissingSet :
         \E i \in 1..Len(calls) :
            ~calls[i].external /\ calls[i].target = m.target /\ calls[i].context = m.context

\* C2 witness: cover%20page.jpg referenced in OEBPS/chapter1.xhtml was
\* resolved to "OEBPS/cover page.jpg", which the archive lacks, and reported
C2_Witness ==
    /\ vpc = "done"
    /\ archive = OneRef(P_chapter1, R_cover, {P_p})
    /\ missing_resources = <<[target |-> P_cover, context |-> P_chapter1]>>
    /\ result = FALSE

\* C3: a reference that starts with http:, https:, data: or mailto: never
\* adds an entry to missing_resources, whether or not the archive has an
\* entry of that name: every such call is skipped, and the missing list has
\* exactly one entry per call without such a prefix whose target is absent.
C3_ExternalNeverMissing ==
    /\ \A i \in 1..Len(calls) : HasScheme(calls[i].src) => calls[i].external
    /\ Len(missing_resources) =
          Cardinality({i \in 1..Len(calls) :
                          ~HasScheme(calls[i].src)
                          /\ calls[i].target \notin archive.entries})

\* C3 witness: data:p was verified in an archive without an entry of that
\* name and nothing was reported
C3_Witness ==
    /\ vpc = "done"
    /\ archive = OneRef(P_c, R_data, {P_p})
    /\ Len(calls) = 1
    /\ missing_resources = <<>>
    /\ result = TRUE

\* C4 as stated: if the archive opened and reading a content document fails
\* with an I/O error, validate() reports the archive invalid, with no
\* missing-resource detail.
C4_IoErrorMakesInvalid ==
    (/\ vpc = "done"
     /\ archive.open = "ok"
     /\ \E d \in DOMAIN archive.docs : archive.docs[d].status = "io_error")
    => (result = FALSE /\ missing_resources = <<>>)

\* the missing descriptions the readable documents of archive a yield
RECURSIVE RefsMissing(_, _, _)
RefsMissing(refs, d, a) ==
    IF refs = <<>> THEN {}
    ELSE LET t == normpath(join(dirname(d), unquote(refs[1])))
         IN  (IF refs[1] # <<>> /\ ~HasScheme(refs[1]) /\ t \notin a.entries
              THEN {[target |-> t, context |-> d]} ELSE {})
             \cup RefsMissing(Tail(refs), d, a)

ReadableMissing(a) ==
    UNION {RefsMissing(a.docs[d].refs, d, a) :
              d \in {x \in ContentDocs(a) : a.docs[x].status = "ok"}}

\* C5: a content document that fails to parse is skipped: validate() still
\* leaves by its normal return, every content document of the archive was
\* handed to _scan_file_for_images exactly once, the failing documents
\* contribute no call and no missing description, and the result is valid
\* iff the readable documents yield no missing reference.
C5_ParseFailureSkipped ==
    (vpc = "done" /\ archive.open = "ok") =>
        /\ exit_path = "normal"
        /\ ScannedSet = ContentDocs(archive)
        /\ Len(scanned) = Cardinality(ContentDocs(archive))
        /\ \A i \in 1..Len(calls) : archive.docs[calls[i].context].status = "ok"
        /\ MissingSet = ReadableMissing(archive)
        /\ result = (ReadableMissing(archive) = {})

\* C5 witness: one document failed to parse, the other was scanned after it
\* and its missing reference reported
C5_Witness ==
    /\ vpc = "done"
    /\ archive.open = "ok"
    /\ Len(scanned) = 2
    /\ archive.docs[scanned[1]].status = "parse_error"
    /\ archive.docs[scanned[2]].status = "ok"
    /\ archive.docs[scanned[1]].refs = <<P_q>>
    /\ missing_resources = <<[target |-> P_dq, context |-> P_B]>>
    /\ result = FALSE

-----------------------------------------------------------------------------
(* EpubSorter *)

\* self.directory.glob("*.epub"), on the listing of the directory
RECURSIVE glob(_)
glob(names) ==
    IF names = <<>> THEN <<>>
    ELSE (IF EndsWith(names[1], <<".","e","p","u","b">>) THEN <<names[1]>> ELSE <<>>)
         \o glob(Tail(names))

RECURSIVE MissingLines(_)
MissingLines(missing) ==
    IF missing = <<>> THEN <<>> ELSE <<MissingLine(missing[1])>> \o MissingLines(Tail(missing))

\* the lines process() logs for a broken file
Diagnostic(name, valid_zip, missing) ==
    <<Line("BROKEN", name)>>
    \o (IF ~valid_zip THEN <<Line("invalid_zip", <<>>)>> ELSE <<>>)
    \o MissingLines(missing)
    \o <<Line("blank", <<>>)>>

\* _print_summary
Summary ==
    [total    |-> Len(valid_epubs) + Len(broken_epubs),
     valid    |-> Len(valid_epubs),
     broken   |-> Len(broken_epubs),
     moved_to |-> (isolate_broken /\ broken_epubs # <<>>)]

\* the list the loop of _isolate_broken_files iterates
MoveListAllFiles == files

MoveList == broken_epubs

\* destination.exists()
NeverExists(name) == FALSE

DestinationExists(name) == name \in DOMAIN broken_files

Remove(seq, name) == SelectSeq(seq, LAMBDA n : n # name)

\* process(), lines 107-109: the directory does not exist
ProcessNoDirectory ==
    /\ pc = "start"
    /\ ~dir_exists
    /\ log' = Append(log, Line("no_directory", <<>>))
    /\ pc' = "done"
    /\ UNCHANGED <<isolate_broken, files, file_idx, valid_epubs, broken_epubs, move_idx, stdout>>
    /\ UNCHANGED <<validator_vars, fs_vars, run_vars>>

\* process(), lines 111-114: no file matches *.epub
ProcessNoFiles ==
    /\ pc = "start"
    /\ dir_exists
    /\ glob(listing) = <<>>
    /\ files' = <<>>
    /\ log' = Append(log, Line("no_files", <<>>))
    /\ pc' = "done"
    /\ UNCHANGED <<isolate_broken, file_idx, valid_epubs, broken_epubs, move_idx, stdout>>
    /\ UNCHANGED <<validator_vars, fs_vars, run_vars>>

\* process(), lines 111-116
ProcessGlob ==
    /\ pc = "start"
    /\ dir_exists
    /\ glob(listing) # <<>>
    /\ files' = glob(listing)
    /\ log' = Append(log, Line("found", <<>>))
    /\ file_idx' = 1
    /\ pc' = "loop"
    /\ UNCHANGED <<isolate_broken, valid_epubs, broken_epubs, move_idx, stdout>>
    /\ UNCHANGED <<validator_vars, fs_vars, run_vars>>

\* process(), lines 118-119: a new EpubValidator for the next file
ProcessValidate ==
    /\ pc = "loop"
    /\ file_idx <= Len(files)
    /\ file_path' = files[file_idx]
    /\ archive' = dir_files[files[file_idx]]
    /\ vpc' = "start"
    /\ is_valid_zip' = TRUE
    /\ missing_resources' = <<>>
    /\ all_files' = {}
    /\ pending' = {}
    /\ scanned' = <<>>
    /\ calls' = <<>>
    /\ result' = "none"
    /\ exit_path' = "none"
    /\ pc' = "validating"
    /\ UNCHANGED <<fs_vars, isolate_broken, files, file_idx, valid_epubs, broken_epubs, move_idx,
                   stdout, log, run_vars>>

\* process(), lines 120-131: validate() has returned
ProcessClassify ==
    /\ pc = "validating"
    /\ vpc = "done"
    /\ IF result = TRUE
       THEN /\ valid_epubs' = Append(valid_epubs, file_path)
            /\ UNCHANGED <<broken_epubs, log>>
       ELSE /\ broken_epubs' = Append(broken_epubs, file_path)
            /\ log' = log \o Diagnostic(file_path, is_valid_zip, missing_resources)
            /\ UNCHANGED valid_epubs
    /\ file_idx' = file_idx + 1
    /\ pc' = "loop"
    /\ vpc' = "idle"
    /\ UNCHANGED <<archive, is_valid_zip, missing_resources, all_files, pending,
                   scanned, calls, result, exit_path, file_path>>
    /\ UNCHANGED <<fs_vars, isolate_broken, files, move_idx, stdout, run_vars>>

\* process(), lines 133-136: nothing to isolate, the summary is printed
ProcessSummary ==
    /\ pc = "loop"
    /\ file_idx > Len(files)
    /\ ~(isolate_broken /\ broken_epubs # <<>>)
    /\ stdout' = Append(stdout, Summary)
    /\ pc' = "done"
    /\ UNCHANGED <<isolate_broken, files, file_idx, valid_epubs, broken_epubs, move_idx, log>>
    /\ UNCHANGED <<validator_vars, fs_vars, run_vars>>

\* _isolate_broken_files, lines 140-143: the isolation directory is created
\* or is there already
IsolateMkdir ==
    /\ pc = "loop"
    /\ file_idx > Len(files)
    /\ isolate_broken /\ broken_epubs # <<>>
    /\ broken_dir # "blocked"
    /\ broken_dir' = "dir"
    /\ log' = Append(log, Line("moving_to", <<>>))
    /\ move_idx' = 1
    /\ pc' = "moving"
    /\ UNCHANGED <<dir_exists, listing, dir_files, broken_files>>
    /\ UNCHANGED <<isolate_broken, files, file_idx, valid_epubs, broken_epubs, stdout>>
    /\ UNCHANGED <<validator_vars, run_vars>>

\* _isolate_broken_files, lines 142 and 159-160, then line 136: mkdir raises,
\* nothing is moved, the summary is printed
IsolateMkdirFails ==
    /\ pc = "loop"
    /\ file_idx > Len(files)
    /\ isolate_broken /\ broken_epubs # <<>>
    /\ broken_dir = "blocked"
    /\ log' = Append(log, Line("mkdir_failed", <<>>))
    /\ stdout' = Append(stdout, Summary)
    /\ pc' = "done"
    /\ UNCHANGED <<isolate_broken, files, file_idx, valid_epubs, broken_epubs, move_idx>>
    /\ UNCHANGED <<validator_vars, fs_vars, run_vars>>

\* _isolate_broken_files, lines 145-150: the destination exists, the file is
\* skipped
IsolateSkip ==
    /\ pc = "moving"
    /\ move_idx <= Len(MoveList)
    /\ DestinationExists(MoveList[move_idx])
    /\ log' = Append(log, Line("skip_exists", MoveList[move_idx]))
    /\ move_idx' = move_idx + 1
    /\ UNCHANGED <<isolate_broken, pc, files, file_idx, valid_epubs, broken_epubs, stdout>>
    /\ UNCHANGED <<validator_vars, fs_vars, run_vars>>

\* _isolate_broken_files, lines 145-154: shutil.move renames the file into
\* the isolation directory
IsolateMove ==
    /\ pc = "moving"
    /\ move_idx <= Len(MoveList)
    /\ ~DestinationExists(MoveList[move_idx])
    /\ LET name == MoveList[move_idx]
       IN  /\ broken_files' = (name :> dir_files[name]) @@ broken_files
           /\ dir_files' = [n \in DOMAIN dir_files \ {name} |-> dir_files[n]]
           /\ listing' = Remove(listing, name)
           /\ log' = Append(log, Line("moved", name))
    /\ move_idx' = move_idx + 1
    /\ UNCHANGED <<dir_exists, broken_dir>>
    /\ UNCHANGED <<isolate_broken, pc, files, file_idx, valid_epubs, broken_epubs, stdout>>
    /\ UNCHANGED <<validator_vars, run_vars>>

\* shutil.move raises and the loop is left
IsolateMoveFailsAborts ==
    /\ pc = "moving"
    /\ move_idx <= Len(MoveList)
    /\ ~DestinationExists(MoveList[move_idx])
    /\ log' = Append(log, Line("move_failed", MoveList[move_idx]))
    /\ move_idx' = Len(MoveList) + 1
    /\ UNCHANGED <<isolate_broken, pc, files, file_idx, valid_epubs, broken_epubs, stdout>>
    /\ UNCHANGED <<validator_vars, fs_vars, run_vars>>

\* _isolate_broken_files, lines 145-156: shutil.move raises, the file stays
IsolateMoveFails ==
    /\ pc = "moving"
    /\ move_idx <= Len(MoveList)
    /\ ~DestinationExists(MoveList[move_idx])
    /\ log' = Append(log, Line("move_failed", MoveList[move_idx]))
    /\ move_idx' = move_idx + 1
    /\ UNCHANGED <<isolate_broken, pc, files, file_idx, valid_epubs, broken_epubs, stdout>>
    /\ UNCHANGED <<validator_vars, fs_vars, run_vars>>

\* _isolate_broken_files, line 158, then process(), line 136
IsolateDone ==
    /\ pc = "moving"
    /\ move_idx > Len(MoveList)
    /\ log' = Append(log, Line("blank", <<>>))
    /\ stdout' = Append(stdout, Summary)
    /\ pc' = "done"
    /\ UNCHANGED <<isolate_broken, files, file_idx, valid_epubs, broken_epubs, move_idx>>
    /\ UNCHANGED <<validator_vars, fs_vars, run_vars>>

\* main(): the program is run again on the directory as the last run left it
RunAgain ==
    /\ pc = "done"
    /\ run < MaxRuns
    /\ run' = run + 1
    /\ prev' = [log |-> log, valid |-> valid_epubs, broken |-> broken_epubs]
    /\ start' = [dir_files |-> dir_files, broken_files |-> broken_files,
                 listing |-> listing]
    /\ pc' = "start"
    /\ files' = <<>>
    /\ file_idx' = 0
    /\ move_idx' = 0
    /\ valid_epubs' = <<>>
    /\ broken_epubs' = <<>>
    /\ log' = <<>>
    /\ stdout' = <<>>
    /\ UNCHANGED <<isolate_broken, validator_vars, fs_vars>>

SorterStep ==
    \/ ProcessNoDirectory
    \/ ProcessNoFiles
    \/ ProcessGlob
    \/ ProcessValidate
    \/ ProcessClassify
    \/ ProcessSummary
    \/ IsolateMkdir
    \/ IsolateMkdirFails
    \/ IsolateSkip
    \/ IsolateMove
    \/ IsolateMoveFails
    \/ IsolateDone

-----------------------------------------------------------------------------
(* The directories the model scans *)

\* an archive whose one image reference resolves
GoodArchive == OneRef(P_c, P_p, {P_p})

\* an archive with two content documents, each with a missing image
TwoMissingArchive ==
    Archive("ok", {P_c, P_B, P_dp},
            (P_c :> Doc("ok", <<P_q>>)) @@ (P_B :> Doc("ok", <<P_q, P_p>>)))

SorterArchives == ClosedArchives \cup {GoodArchive, TwoMissingArchive}

\* a file that was in <directory>/broken before the run
OldArchive == Archive("ok", {P_q}, <<>>)

Orderings(S) ==
    {f \in [1..Cardinality(S) -> S] : \A a, b \in 1..Cardinality(S) : a # b => f[a] # f[b]}

\* a.epub and b.epub, each absent or any of the archives, with or without a
\* file c.EPUB that the pattern does not match
Directories ==
    LET Epubs == UNION {[S -> SorterArchives] : S \in SUBSET {N_a, N_b}}
    IN  Epubs \cup {(N_c :> GoodArchive) @@ d : d \in Epubs}

Init ==
    /\ dir_exists \in BOOLEAN
    /\ dir_files \in (IF dir_exists THEN Directories ELSE {<<>>})
    /\ listing \in Orderings(DOMAIN dir_files)
    /\ isolate_broken \in BOOLEAN
    /\ broken_dir \in (IF dir_exists /\ isolate_broken
                       THEN {"absent", "dir", "blocked"} ELSE {"absent"})
    /\ broken_files \in (IF broken_dir = "dir"
                         THEN UNION {[S -> {OldArchive}] : S \in SUBSET {N_a, N_b}}
                         ELSE {<<>>})
    /\ pc = "start"
    /\ files = <<>>
    /\ file_idx = 0
    /\ move_idx = 0
    /\ valid_epubs = <<>>
    /\ broken_epubs = <<>>
    /\ log = <<>>
    /\ stdout = <<>>
    /\ run = 1
    /\ start = [dir_files |-> dir_files, broken_files |-> broken_files,
                listing |-> listing]
    /\ prev = NoOutcome
    /\ archive = Archive("notzip", {}, <<>>)
    /\ vpc = "idle"
    /\ file_path = <<>>
    /\ NewValidator

Next ==
    \/ SorterStep
    \/ ValidatorNext
    \/ RunAgain

Spec == Init /\ [][Next]_vars

-----------------------------------------------------------------------------
(* Properties of process() *)

Range(seq) == {seq[j] : j \in 1..Len(seq)}

\* the files the loop of _isolate_broken_files has dealt with, in order:
\* moved, skipped because the destination exists, or failed to move
Handled == SelectSeq(log, LAMBDA l : l.kind \in {"moved", "skip_exists", "move_failed"})

HandledNames == [j \in 1..Len(Handled) |-> Handled[j].name]

\* process() has finished a run in which it found files
Finished == pc = "done" /\ files # <<>>

\* C6: isolation never overwrites a file of <directory>/broken: every file
\* that was there when the run began is still there with its content, and a
\* broken archive whose name was there is skipped (logged, not moved), is
\* still at its original path with its content, and is counted in the broken
\* count of the summary.
C6_NeverOverwrite ==
    /\ \A n \in DOMAIN start.broken_files :
         n \in DOMAIN broken_files /\ broken_files[n] = start.broken_files[n]
    /\ Finished =>
         \A n \in Range(broken_epubs) :
            (isolate_broken /\ n \in DOMAIN start.broken_files) =>
               /\ n \in DOMAIN dir_files
               /\ dir_files[n] = start.dir_files[n]
               /\ Line("skip_exists", n) \in Range(log)
               /\ Line("moved", n) \notin Range(log)
               /\ Len(stdout) = 1
               /\ stdout[1].broken = Len(broken_epubs)
               /\ stdout[1].broken >= 1

\* C6 witness: a.epub is broken, broken/a.epub existed before the run, the
\* run skipped it and printed the summary
C6_Witness ==
    /\ Finished
    /\ run = 1
    /\ isolate_broken
    /\ N_a \in Range(broken_epubs)
    /\ N_a \in DOMAIN start.broken_files
    /\ Line("skip_exists", N_a) \in Range(log)
    /\ broken_files[N_a] = OldArchive
    /\ dir_files[N_a] # OldArchive

\* C7: per-file errors never abort the batch: the summary is printed only
\* by a run that is over, and when a run that found files is over every
\* matched file has been validated and classified, the summary has been
\* printed once, and if the isolation directory could be made the isolation
\* loop has dealt with every broken archive, in order (moved it, skipped it
\* because of a name collision, or failed to move it), whatever happened to
\* the ones before.
C7_BatchNeverAborts ==
    /\ (stdout # <<>>) => Finished
    /\ Finished =>
         /\ Range(valid_epubs) \cup Range(broken_epubs) = Range(files)
         /\ Len(valid_epubs) + Len(broken_epubs) = Len(files)
         /\ Len(stdout) = 1
         /\ (isolate_broken /\ broken_epubs # <<>>
                /\ Line("mkdir_failed", <<>>) \notin Range(log))
              => HandledNames = broken_epubs

\* C7 witness: the first file is not a zip file and could not be moved; the
\* second, broken too, was still validated and then moved, and the summary
\* printed
C7_Witness ==
    /\ Finished
    /\ Len(broken_epubs) = 2
    /\ start.dir_files[broken_epubs[1]].open = "notzip"
    /\ Len(Handled) = 2
    /\ Handled[1] = Line("move_failed", broken_epubs[1])
    /\ Handled[2] = Line("moved", broken_epubs[2])
    /\ Len(stdout) = 1

\* C8 as stated: a second run on the unchanged directory, isolation
\* disabled, classifies every archive as the first run did and logs the same
\* lines in the same order, whatever the order an archive's entry set is
\* iterated in.
C8_SameOutputTwice ==
    (run = 2 /\ pc = "done" /\ ~isolate_broken) =>
        /\ valid_epubs = prev.valid
        /\ broken_epubs = prev.broken
        /\ log = prev.log

\* C9 as stated: the summary has the 'Moved to' line only if an archive was
\* relocated in the run.
C9_MovedToOnlyIfMoved ==
    (pc = "done" /\ stdout # <<>> /\ stdout[1].moved_to) =>
        \E l \in Range(log) : l.kind = "moved"

\* C10: only archives classified broken are moved: no file of the directory
\* ever changes content, a file leaves the directory only into
\* <directory>/broken and only if it is in broken_epubs, nothing moves with
\* isolation disabled; when the run is over every archive in valid_epubs is
\* at its original path, every matched file is in exactly one of the two
\* lists, and the summary has Total = Valid + Broken = number of matched
\* files (a valid a.epub and a broken b.epub that is moved: Total 2, Valid 1,
\* Broken 1, b.epub in broken/).
C10_OnlyBrokenMoved ==
    /\ DOMAIN dir_files \subseteq DOMAIN start.dir_files
    /\ \A n \in DOMAIN dir_files : dir_files[n] = start.dir_files[n]
    /\ \A n \in DOMAIN start.dir_files \ DOMAIN dir_files :
         /\ n \in Range(broken_epubs)
         /\ n \in DOMAIN broken_files
         /\ broken_files[n] = start.dir_files[n]
    /\ ~isolate_broken => (dir_files = start.dir_files /\ broken_files = start.broken_files)
    /\ Finished =>
         /\ files = glob(start.listing)
         /\ \A n \in Range(valid_epubs) :
               n \in DOMAIN dir_files /\ dir_files[n] = start.dir_files[n]
         /\ Range(valid_epubs) \cap Range(broken_epubs) = {}
         /\ Range(valid_epubs) \cup Range(broken_epubs) = Range(files)
         /\ Len(valid_epubs) + Len(broken_epubs) = Len(files)
         /\ Len(stdout) = 1
         /\ stdout[1].valid = Len(valid_epubs)
         /\ stdout[1].broken = Len(broken_epubs)
         /\ stdout[1].total = stdout[1].valid + stdout[1].broken
         /\ stdout[1].total = Len(glob(start.listing))
         /\ (/\ isolate_broken
             /\ DOMAIN start.dir_files = {N_a, N_b}
             /\ start.dir_files[N_a] = GoodArchive
             /\ start.dir_files[N_b].open = "notzip"
             /\ Line("moved", N_b) \in Range(log))
            => /\ stdout[1] = [total |-> 2, valid |-> 1, broken |-> 1, moved_to |-> TRUE]
               /\ DOMAIN dir_files = {N_a}
               /\ dir_files[N_a] = GoodArchive
               /\ broken_files[N_b] = start.dir_files[N_b]

\* C10 witness: a valid a.epub and a broken b.epub, isolation enabled:
\* b.epub is in broken/, a.epub where it was, the summary says 2, 1, 1
C10_Witness ==
    /\ Finished
    /\ run = 1
    /\ isolate_broken
    /\ start.dir_files = (N_a :> GoodArchive) @@ (N_b :> Archive("notzip", {}, <<>>))
    /\ dir_files = (N_a :> GoodArchive)
    /\ N_b \in DOMAIN broken_files
    /\ valid_epubs = <<N_a>>
    /\ broken_epubs = <<N_b>>
    /\ stdout = <<[total |-> 2, valid |-> 1, broken |-> 1, moved_to |-> TRUE]>>

=============================================================================
